---- MODULE Spec2Model ----
(***************************************************************************)
(* A model of nel::map (src/nel/map.h): the patch-indexed world map, its   *)
(* coordinate arithmetic, the 4-patch neighborhood geometry, the fixing    *)
(* protocol (get_fixed_neighborhood / fix_patches), the sampler-facing     *)
(* iteration helper (iterate_neighborhoods), the read-only query surface   *)
(* (get_neighborhood, get_state, get_items) and the snapshot codec.        *)
(*                                                                         *)
(* A map is a record [n, gibbs_iterations, rng, patches]; `patches` is the *)
(* hash_map<position, patch> as a function whose DOMAIN is the set of keys *)
(* in the index.  A reference to a patch (patch_type* / patch_type&) is    *)
(* modelled by the key of the slot it points into: get_fixed_neighborhood  *)
(* reserves room for 16 insertions first, so slots do not move.            *)
(***************************************************************************)
EXTENDS Integers, Sequences, FiniteSets, TLC

VARIABLES world, twin, ret, sampled, calls

vars == <<world, twin, ret, sampled, calls>>

(***************************************************************************)
(* Bounds of the model.                                                    *)
(***************************************************************************)
\* world coordinates handed to the map's operations are in -MaxCoord..MaxCoord
MaxCoord == 1
\* number of calls made on a map
MaxCalls == 2
\* gibbs_iterations is drawn from 0..MaxGibbs at construction
MaxGibbs == 1
\* the pure coordinate functions are applied to patch sizes 1..MaxN ...
MaxN == 8
\* ... and to world coordinates in -MaxW..MaxW
MaxW == 9

\* patch sizes of the maps that are operated on (8 is the size of the
\* scenarios; 1 is the smallest size, 3 an odd one)
PatchSizes == {1, 3, 8}
\* seed arguments: 0 is the default seed of the debug build, 42 the seed of
\* the scenarios
Seeds == {0, 42}
\* readings of milliseconds() when a map is constructed; a second map is
\* constructed at the same reading or one millisecond later
Clocks == {1000}

Coords == (0 - MaxCoord)..MaxCoord

(***************************************************************************)
(* position                                                                *)
(***************************************************************************)
Pos(x, y) == [x |-> x, y |-> y]

World == {Pos(x, y) : x \in Coords, y \in Coords}

up(p) == Pos(p.x, p.y + 1)

down(p) == Pos(p.x, p.y - 1)

left(p) == Pos(p.x - 1, p.y)

right(p) == Pos(p.x + 1, p.y)

\* operator < of position: by x, then by y
position_less(a, b) == a.x < b.x \/ (a.x = b.x /\ a.y < b.y)

(***************************************************************************)
(* Coordinate mapping                                                      *)
(***************************************************************************)
\* lldiv of <cstdlib>: the quotient truncated towards zero, and the remainder
lldiv(a, b) ==
  LET q == IF a >= 0 THEN a \div b ELSE 0 - ((0 - a) \div b)
  IN  [quot |-> q, rem |-> a - q * b]

floored_div_truncating(a, b) == lldiv(a, b).quot

floored_div(a, b) ==
  LET result == lldiv(a, b)
  IN  IF a < 0 /\ result.rem # 0 THEN result.quot - 1 ELSE result.quot

floored_div_with_remainder_no_rem_fix(a, b) ==
  LET result == lldiv(a, b)
  IN  IF a < 0 /\ result.rem # 0
      THEN [quot |-> result.quot - 1, rem |-> result.rem]
      ELSE result

floored_div_with_remainder(a, b) ==
  LET result == lldiv(a, b)
  IN  IF a < 0 /\ result.rem # 0
      THEN [quot |-> result.quot - 1, rem |-> result.rem + b]
      ELSE result

\* the overload that yields the patch position only
world_to_patch_coordinates(world_position, n) ==
  Pos(floored_div(world_position.x, n), floored_div(world_position.y, n))

\* the overload that also yields the position within the patch
world_to_patch_coordinates_within(world_position, n) ==
  LET x_quotient == floored_div_with_remainder(world_position.x, n)
      y_quotient == floored_div_with_remainder(world_position.y, n)
  IN  [patch_position |-> Pos(x_quotient.quot, y_quotient.quot),
       position_within_patch |-> Pos(x_quotient.rem, y_quotient.rem)]

(***************************************************************************)
(* Neighborhood geometry                                                   *)
(***************************************************************************)
\* the anchor patch_positions[0] and the returned index, by quadrant
quadrant_anchor_no_up(patch_position, position_within_patch, n) ==
  IF position_within_patch.x < (n \div 2)
  THEN IF position_within_patch.y < (n \div 2)
       THEN [anchor |-> left(patch_position), patch_index |-> 1]
       ELSE [anchor |-> up(left(patch_position)), patch_index |-> 3]
  ELSE IF position_within_patch.y < (n \div 2)
       THEN [anchor |-> patch_position, patch_index |-> 0]
       ELSE [anchor |-> patch_position, patch_index |-> 2]

quadrant_anchor(patch_position, position_within_patch, n) ==
  IF position_within_patch.x < (n \div 2)
  THEN IF position_within_patch.y < (n \div 2)
       THEN [anchor |-> left(patch_position), patch_index |-> 1]
       ELSE [anchor |-> up(left(patch_position)), patch_index |-> 3]
  ELSE IF position_within_patch.y < (n \div 2)
       THEN [anchor |-> patch_position, patch_index |-> 0]
       ELSE [anchor |-> up(patch_position), patch_index |-> 2]

get_neighborhood_positions_column_major(world_position, n) ==
  LET c == world_to_patch_coordinates_within(world_position, n)
      q == quadrant_anchor(c.patch_position, c.position_within_patch, n)
      p0 == q.anchor
      p1 == down(p0)
      p2 == right(p0)
      p3 == right(p1)
  IN  [patch_positions |-> <<p0, p1, p2, p3>>, patch_index |-> q.patch_index,
       patch_position |-> c.patch_position,
       position_within_patch |-> c.position_within_patch]

\* patch_positions is the sequence <<[0], [1], [2], [3]>>; the index is 0-based.
\* The locals patch_position and position_within_patch are kept in the result.
get_neighborhood_positions(world_position, n) ==
  LET c == world_to_patch_coordinates_within(world_position, n)
      q == quadrant_anchor(c.patch_position, c.position_within_patch, n)
      p0 == q.anchor
      p1 == right(p0)
      p2 == down(p0)
      p3 == right(p2)
  IN  [patch_positions |-> <<p0, p1, p2, p3>>, patch_index |-> q.patch_index,
       patch_position |-> c.patch_position,
       position_within_patch |-> c.position_within_patch]

(***************************************************************************)
(* The PRNG: std::minstd_rand, x' = 48271 * x mod (2^31 - 1).  The product *)
(* is formed by Schrage's decomposition (2^31 - 1 = 48271 * 44488 + 3399)  *)
(* so that no intermediate value leaves the 32-bit range.                  *)
(***************************************************************************)
\* rng.seed(s): the state is s mod m, and 1 when that is 0
rng_seed(s) ==
  LET x == s % 2147483647
  IN  IF x = 0 THEN 1 ELSE x

\* rng(): the next state, which is also the value returned
rng_next(x) ==
  LET t == 48271 * (x % 44488) - 3399 * (x \div 44488)
  IN  IF t < 0 THEN t + 2147483647 ELSE t

(***************************************************************************)
(* Patches and the patch index                                             *)
(***************************************************************************)
\* init(patch&): not fixed, no items
init_patch == [fixed |-> FALSE, items |-> <<>>]

\* a patch_type* or patch_type&: the key of the slot referred to, or NULL
NULL == <<>>

ref(patch_position) == <<patch_position>>

\* the patch that a reference other than NULL refers to
deref(m, r) == m.patches[r[1]]

get_patch_if_exists(m, patch_position) ==
  IF patch_position \in DOMAIN m.patches THEN ref(patch_position) ELSE NULL

\* the map after the call, and the reference returned
get_or_make_patch(m, patch_position) ==
  IF patch_position \in DOMAIN m.patches
  THEN [map |-> m, patch |-> ref(patch_position)]
  ELSE [map |-> [m EXCEPT !.patches = m.patches @@ (patch_position :> init_patch)],
        patch |-> ref(patch_position)]

\* init(patch&) when init(new_patch.data) or array_init(new_patch.items, 8)
\* fails: fixed has been assigned, items has not been initialised
init_patch_failed == [fixed |-> FALSE]

\* init(patch&), lines 72-82: the value returned and the patch left behind
init_patch_outcome(data_ok, items_ok) ==
  IF data_ok /\ items_ok
  THEN [status |-> TRUE, patch |-> init_patch]
  ELSE [status |-> FALSE, patch |-> init_patch_failed]

\* get_or_make_patch with the outcome of its call of init: the key is stored
\* and the size is incremented whatever init returned (lines 176-178)
get_or_make_patch_init(m, patch_position, initialised) ==
  IF patch_position \in DOMAIN m.patches
  THEN [map |-> m, patch |-> ref(patch_position)]
  ELSE [map |-> [m EXCEPT !.patches = m.patches @@ (patch_position :> initialised.patch)],
        patch |-> ref(patch_position)]

(***************************************************************************)
(* core::array operations used by fix_patches                              *)
(***************************************************************************)
\* insertion_sort, one insertion: `sorted` is ascending, and e goes behind
\* the elements that are not greater than it
insert_sorted(sorted, e) ==
  IF sorted = <<>> \/ ~position_less(e, sorted[Len(sorted)])
  THEN Append(sorted, e)
  ELSE LET k == Cardinality({i \in 1..Len(sorted) : ~position_less(e, sorted[i])})
       IN  [i \in 1..(Len(sorted) + 1) |->
              IF i <= k THEN sorted[i] ELSE IF i = k + 1 THEN e ELSE sorted[i - 1]]

\* insertion_sort of the first k elements of a
RECURSIVE sorted_prefix(_, _)
sorted_prefix(a, k) ==
  IF k = 0 THEN <<>> ELSE insert_sorted(sorted_prefix(a, k - 1), a[k])

insertion_sort(a) == sorted_prefix(a, Len(a))

\* unique of the first k elements of a: of every run of equal adjacent
\* elements, the first is kept
RECURSIVE unique_prefix(_, _)
unique_prefix(a, k) ==
  IF k = 0 THEN <<>>
  ELSE IF k > 1 /\ a[k] = a[k - 1] THEN unique_prefix(a, k - 1)
  ELSE Append(unique_prefix(a, k - 1), a[k])

unique_keep_duplicates(a) == a

unique(a) == unique_prefix(a, Len(a))

\* array::remove(index): the last element moves into the place of the removed
\* one (index is 1-based here)
array_remove(a, index) ==
  [j \in 1..(Len(a) - 1) |-> IF j = index THEN a[Len(a)] ELSE a[j]]

(***************************************************************************)
(* The Gibbs field.  One sweep visits the positions handed to the field in *)
(* order; at each it draws from the PRNG and resamples the patch there: the*)
(* item at the drawn cell of the patch's tile is removed if there is one,  *)
(* and created if there is none, so every patch handed to the field        *)
(* changes in every sweep.                                                 *)
(***************************************************************************)
sampled_item(patch_position, r, n) ==
  [item_type |-> 0,
   location |-> Pos(patch_position.x * n + (r % n),
                    patch_position.y * n + ((r \div n) % n)),
   creation_time |-> 0,
   deletion_time |-> 0]

select_seq_without(items, location) ==
  SelectSeq(items, LAMBDA i : i.location # location)

resample_patch(p, patch_position, r, n) ==
  LET it == sampled_item(patch_position, r, n)
  IN  IF \E k \in 1..Len(p.items) : p.items[k].location = it.location
      THEN [p EXCEPT !.items = select_seq_without(p.items, it.location)]
      ELSE [p EXCEPT !.items = Append(p.items, it)]

RECURSIVE field_sample(_, _, _)
field_sample(m, positions, k) ==
  IF k > Len(positions) THEN m
  ELSE LET r == rng_next(m.rng)
           q == positions[k]
       IN  field_sample(
             [m EXCEPT !.rng = r,
                       !.patches[q] = resample_patch(m.patches[q], q, r, m.n)],
             positions, k + 1)

(***************************************************************************)
(* fix_patches                                                             *)
(***************************************************************************)
halo_two_steps(p) ==
  <<left(up(p)), up(p), right(up(p)),
    left(p), p, right(p),
    left(down(p)), down(p), right(down(p)),
    up(up(p)), left(left(p)), right(right(p)), down(down(p))>>

halo_no_diagonals(p) == <<up(p), left(p), p, right(p), down(p)>>

\* the nine positions added for an input patch, in the order of the code
halo(p) ==
  <<left(up(p)), up(p), right(up(p)),
    left(p), p, right(p),
    left(down(p)), down(p), right(down(p))>>

\* lines 445-458: the working set after the input patches from i on
RECURSIVE collect_positions(_, _, _, _, _)
collect_positions(m, patches, patch_positions, i, positions_to_sample) ==
  IF i > Len(patch_positions) THEN positions_to_sample
  ELSE IF deref(m, patches[i]).fixed
       THEN collect_positions(m, patches, patch_positions, i + 1,
                              positions_to_sample)
       ELSE collect_positions(m, patches, patch_positions, i + 1,
              unique(insertion_sort(positions_to_sample \o halo(patch_positions[i]))))

\* lines 460-465: every position of the working set is looked up or made, and
\* the positions of fixed patches are removed
RECURSIVE remove_fixed_keep_all(_, _, _)
remove_fixed_keep_all(m, positions_to_sample, i) ==
  IF i > Len(positions_to_sample)
  THEN [map |-> m, positions_to_sample |-> positions_to_sample]
  ELSE remove_fixed_keep_all(get_or_make_patch(m, positions_to_sample[i]).map,
                             positions_to_sample, i + 1)

RECURSIVE remove_fixed(_, _, _)
remove_fixed(m, positions_to_sample, i) ==
  IF i > Len(positions_to_sample)
  THEN [map |-> m, positions_to_sample |-> positions_to_sample]
  ELSE LET made == get_or_make_patch(m, positions_to_sample[i])
       IN  IF deref(made.map, made.patch).fixed
           THEN remove_fixed(made.map, array_remove(positions_to_sample, i), i)
           ELSE remove_fixed(made.map, positions_to_sample, i + 1)

\* lines 470-471: gibbs_iterations sweeps of the field
RECURSIVE gibbs_sweeps(_, _, _)
gibbs_sweeps(m, positions_to_sample, iterations) ==
  IF iterations = 0 THEN m
  ELSE gibbs_sweeps(field_sample(m, positions_to_sample, 1),
                    positions_to_sample, iterations - 1)

\* lines 473-474
set_fixed_first_only(m, patches) ==
  [m EXCEPT !.patches[patches[1][1]].fixed = TRUE]

set_fixed_every_position(m, patches) ==
  [m EXCEPT !.patches = [q \in DOMAIN m.patches |->
       [m.patches[q] EXCEPT !.fixed = TRUE]]]

set_fixed(m, patches) ==
  [m EXCEPT !.patches = [q \in DOMAIN m.patches |->
       IF \E i \in 1..Len(patches) : patches[i] = ref(q)
       THEN [m.patches[q] EXCEPT !.fixed = TRUE]
       ELSE m.patches[q]]]

\* the map after the call, and the positions that were handed to the field
fix_patches(m, patches, patch_positions) ==
  LET working == collect_positions(m, patches, patch_positions, 1, <<>>)
      walked == remove_fixed(m, working, 1)
      swept == gibbs_sweeps(walked.map, walked.positions_to_sample,
                            m.gibbs_iterations)
  IN  [map |-> set_fixed(swept, patches),
       positions_to_sample |-> walked.positions_to_sample]

(***************************************************************************)
(* get_fixed_neighborhood                                                  *)
(***************************************************************************)
\* lines 199-200: the four patches are looked up or made; neighborhood[i] is
\* the reference returned for patch_positions[i]
RECURSIVE make_neighborhood(_, _, _, _)
make_neighborhood(m, patch_positions, i, neighborhood) ==
  IF i > Len(patch_positions) THEN [map |-> m, neighborhood |-> neighborhood]
  ELSE LET made == get_or_make_patch(m, patch_positions[i])
       IN  make_neighborhood(made.map, patch_positions, i + 1,
                             Append(neighborhood, made.patch))

get_fixed_neighborhood(m, world_position) ==
  LET g == get_neighborhood_positions(world_position, m.n)
      made == make_neighborhood(m, g.patch_positions, 1, <<>>)
      fixed == fix_patches(made.map, made.neighborhood, g.patch_positions)
  IN  [map |-> fixed.map,
       neighborhood |-> made.neighborhood,
       patch_positions |-> g.patch_positions,
       index |-> g.patch_index,
       patch_position |-> g.patch_position,
       position_within_patch |-> g.position_within_patch,
       positions_to_sample |-> fixed.positions_to_sample]

(***************************************************************************)
(* iterate_neighborhoods                                                   *)
(***************************************************************************)
\* the references to the patches that exist at `candidates`, in order
RECURSIVE existing(_, _)
existing(m, candidates) ==
  IF candidates = <<>> THEN <<>>
  ELSE LET r == get_patch_if_exists(m, Head(candidates))
       IN  (IF r # NULL THEN <<r>> ELSE <<>>) \o existing(m, Tail(candidates))

quadrant_neighborhood(m, patch_position, quadrant) ==
  LET p == patch_position
      current == get_patch_if_exists(m, p)
  IN  CASE quadrant = 0 -> <<current>> \o existing(m, <<left(p), down(p), left(down(p))>>)
        [] quadrant = 1 -> <<current>> \o existing(m, <<left(p), up(p), left(up(p))>>)
        [] quadrant = 2 -> <<current>> \o existing(m, <<right(p), down(p), right(down(p))>>)
        [] OTHER        -> <<current>> \o existing(m, <<right(p), up(p), right(up(p))>>)

\* one call of process_neighborhood_function for `quadrant` (0 bottom-left,
\* 1 top-left, 2 bottom-right, 3 top-right).  Its two coordinate arguments
\* each draw from the PRNG; the order in which a compiler evaluates them is
\* unspecified: left to right, or (rtl) right to left.
invocation(m, patch_position, rng, rtl, quadrant, i, selected) ==
  LET half_n == m.n \div 2
      a == rng_next(rng)
      b == rng_next(a)
      dx == IF rtl THEN b ELSE a
      dy == IF rtl THEN a ELSE b
      nb == quadrant_neighborhood(m, patch_position, quadrant)
  IN  [rng |-> b,
       call |-> [iteration |-> i,
                 selected |-> selected,
                 quadrant |-> quadrant,
                 x |-> (dx % half_n) + (IF quadrant \in {2, 3} THEN half_n ELSE 0),
                 y |-> (dy % half_n) + (IF quadrant \in {1, 3} THEN half_n ELSE 0),
                 neighborhood |-> nb,
                 neighbor_count |-> Len(nb)]]

\* the switch of lines 281-290 entered at `quadrant`: no case ends in a break,
\* so control falls through every later case
RECURSIVE switch_cases(_, _, _, _, _, _, _, _)
switch_cases(m, patch_position, rng, rtl, quadrant, i, selected, acc) ==
  IF quadrant > 3 THEN [rng |-> rng, invocations |-> acc]
  ELSE LET v == invocation(m, patch_position, rng, rtl, quadrant, i, selected)
       IN  switch_cases(m, patch_position, v.rng, rtl, quadrant + 1, i, selected,
                        Append(acc, v.call))

\* one iteration of the loop of lines 280-291
iteration(m, patch_position, rng, rtl, i) ==
  LET r == rng_next(rng)
  IN  switch_cases(m, patch_position, r, rtl, r % 4, i, r % 4, <<>>)

\* the iterations lo..hi-1 of the loop, in order.  The range is halved so
\* that the evaluation does not nest once per iteration, and the test of
\* first.rng (a state of the PRNG is never 0) has the first half evaluated
\* before the second.
RECURSIVE iterate_loop(_, _, _, _, _, _)
iterate_loop(m, patch_position, rng, rtl, lo, hi) ==
  IF lo >= hi THEN [rng |-> rng, invocations |-> <<>>]
  ELSE IF hi = lo + 1 THEN iteration(m, patch_position, rng, rtl, lo)
  ELSE LET mid == (lo + hi) \div 2
           first == iterate_loop(m, patch_position, rng, rtl, lo, mid)
       IN  IF first.rng > 0
           THEN LET second == iterate_loop(m, patch_position, first.rng, rtl, mid, hi)
                IN  [rng |-> second.rng,
                     invocations |-> first.invocations \o second.invocations]
           ELSE first

\* the map after the call, and the calls made of process_neighborhood_function
iterate_neighborhoods(m, patch_position, rtl) ==
  LET l == iterate_loop(m, patch_position, m.rng, rtl, 0, m.n * m.n)
  IN  [map |-> [m EXCEPT !.rng = l.rng], invocations |-> l.invocations]

(***************************************************************************)
(* The read-only query surface                                             *)
(***************************************************************************)
\* a call of get_patch_if_exists: the map after it, and the pointer returned
patch_lookup_making(m, patch_position) == get_or_make_patch(m, patch_position)

patch_lookup(m, patch_position) ==
  [map |-> m, patch |-> get_patch_if_exists(m, patch_position)]

\* get_neighborhood, one pass of the loop of lines 221-227 for i (0-based).
\* s holds the map, the caller's array, patch_index and the local index.
get_neighborhood_step_index_kept(s, patch_positions, i) ==
  LET l == patch_lookup(s.map, patch_positions[i + 1])
      written == [s.neighborhood EXCEPT ![s.index + 1] = l.patch]
  IN  IF l.patch # NULL
      THEN [map |-> l.map, neighborhood |-> written,
            patch_index |-> s.patch_index, index |-> s.index + 1]
      ELSE [s EXCEPT !.map = l.map, !.neighborhood = written]

get_neighborhood_step(s, patch_positions, i) ==
  LET l == patch_lookup(s.map, patch_positions[i + 1])
      written == [s.neighborhood EXCEPT ![s.index + 1] = l.patch]
  IN  IF l.patch # NULL
      THEN [map |-> l.map, neighborhood |-> written,
            patch_index |-> IF s.patch_index = i THEN s.index ELSE s.patch_index,
            index |-> s.index + 1]
      ELSE [s EXCEPT !.map = l.map, !.neighborhood = written]

RECURSIVE get_neighborhood_loop(_, _, _)
get_neighborhood_loop(s, patch_positions, i) ==
  IF i >= 4 THEN s
  ELSE get_neighborhood_loop(get_neighborhood_step(s, patch_positions, i),
                             patch_positions, i + 1)

\* `neighborhood` is the caller's array of four pointers as it is handed in;
\* the value returned is `count`
get_neighborhood(m, world_position, neighborhood) ==
  LET g == get_neighborhood_positions(world_position, m.n)
      s == get_neighborhood_loop(
             [map |-> m, neighborhood |-> neighborhood,
              patch_index |-> g.patch_index, index |-> 0],
             g.patch_positions, 0)
  IN  [map |-> s.map,
       neighborhood |-> s.neighborhood,
       patch_positions |-> g.patch_positions,
       patch_index |-> s.patch_index,
       count |-> s.index,
       patch_position |-> g.patch_position,
       position_within_patch |-> g.position_within_patch]

\* get_state, lines 305-311 without the callback: the patch positions of the
\* rectangle are visited by x, then by y, and each is looked up; k counts the
\* positions visited, and `found` collects the patches that exist
RECURSIVE get_state_scan(_, _, _, _, _)
get_state_scan(m, bottom_left_patch_position, top_right_patch_position, k, found) ==
  LET height == top_right_patch_position.y - bottom_left_patch_position.y + 1
      width == top_right_patch_position.x - bottom_left_patch_position.x + 1
  IN  IF height <= 0 \/ width <= 0 \/ k >= width * height
      THEN [map |-> m, found |-> found]
      ELSE LET q == Pos(bottom_left_patch_position.x + (k \div height),
                        bottom_left_patch_position.y + (k % height))
               l == patch_lookup(m, q)
           IN  get_state_scan(l.map, bottom_left_patch_position,
                              top_right_patch_position, k + 1,
                              IF l.patch # NULL THEN Append(found, q) ELSE found)

\* get_state with a process_patch that records the position it is called for
\* and returns false from its call number `refuse` on (1-based)
get_state(m, bottom_left_corner, top_right_corner, refuse) ==
  LET bottom_left_patch_position == world_to_patch_coordinates(bottom_left_corner, m.n)
      top_right_patch_position == world_to_patch_coordinates(top_right_corner, m.n)
      scan == get_state_scan(m, bottom_left_patch_position,
                             top_right_patch_position, 0, <<>>)
      stopped == Len(scan.found) >= refuse
  IN  [map |-> scan.map,
       status |-> ~stopped,
       processed |-> IF stopped THEN SubSeq(scan.found, 1, refuse) ELSE scan.found,
       bottom_left_patch_position |-> bottom_left_patch_position,
       top_right_patch_position |-> top_right_patch_position]

\* the condition of lines 333-334
in_rectangle_exclusive(location, bottom_left_corner, top_right_corner) ==
  /\ location.x >= bottom_left_corner.x /\ location.x < top_right_corner.x
  /\ location.y >= bottom_left_corner.y /\ location.y < top_right_corner.y

in_rectangle(location, bottom_left_corner, top_right_corner) ==
  /\ location.x >= bottom_left_corner.x /\ location.x <= top_right_corner.x
  /\ location.y >= bottom_left_corner.y /\ location.y <= top_right_corner.y

\* the process_patch of get_items for one patch: its items within the
\* rectangle are added to `items`, whose add fails once it holds `capacity`
\* items
RECURSIVE process_patch_items(_, _, _, _, _, _)
process_patch_items(p, k, bottom_left_corner, top_right_corner, items, capacity) ==
  IF k > Len(p.items) THEN [status |-> TRUE, items |-> items]
  ELSE IF in_rectangle(p.items[k].location, bottom_left_corner, top_right_corner)
       THEN IF Len(items) >= capacity
            THEN [status |-> FALSE, items |-> items]
            ELSE process_patch_items(p, k + 1, bottom_left_corner, top_right_corner,
                                     Append(items, p.items[k]), capacity)
       ELSE process_patch_items(p, k + 1, bottom_left_corner, top_right_corner,
                                items, capacity)

\* get_state driving the process_patch of get_items over the patches found,
\* until one call returns false
RECURSIVE get_items_patches(_, _, _, _, _, _, _)
get_items_patches(m, found, j, bottom_left_corner, top_right_corner, items, capacity) ==
  IF j > Len(found) THEN [status |-> TRUE, items |-> items]
  ELSE LET r == process_patch_items(m.patches[found[j]], 1, bottom_left_corner,
                                    top_right_corner, items, capacity)
       IN  IF r.status
           THEN get_items_patches(m, found, j + 1, bottom_left_corner,
                                  top_right_corner, r.items, capacity)
           ELSE r

get_items(m, bottom_left_corner, top_right_corner, items, capacity) ==
  LET scan == get_state_scan(m,
                world_to_patch_coordinates(bottom_left_corner, m.n),
                world_to_patch_coordinates(top_right_corner, m.n), 0, <<>>)
      r == get_items_patches(scan.map, scan.found, 1, bottom_left_corner,
                             top_right_corner, items, capacity)
  IN  [map |-> scan.map, status |-> r.status, items |-> r.items]

(***************************************************************************)
(* Construction                                                            *)
(***************************************************************************)
no_patches == [q \in {} |-> init_patch]

\* map::map (lines 124-133): the PRNG is seeded with the argument, and then
\* seeded again, with 0 in a debug build, with the clock under NDEBUG
map_constructor(n, gibbs_iterations, seed, ndebug, clock) ==
  [n |-> n,
   gibbs_iterations |-> gibbs_iterations,
   rng |-> IF ndebug THEN rng_seed(clock) ELSE rng_seed(0),
   patches |-> no_patches]

\* init(map&, ..., seed) (lines 483-499)
init_map(n, gibbs_iterations, seed) ==
  [n |-> n,
   gibbs_iterations |-> gibbs_iterations,
   rng |-> rng_seed(seed),
   patches |-> no_patches]

\* the maps that construction can yield from the given arguments
constructed(via, n, gibbs_iterations, seed, ndebug, clock) ==
  IF via = "map::map"
  THEN map_constructor(n, gibbs_iterations, seed, ndebug, clock)
  ELSE init_map(n, gibbs_iterations, seed)

Constructions == {"map::map", "init"}

\* the storage of a map that has not been constructed or read
no_map == [n |-> 0, gibbs_iterations |-> 0, rng |-> 0, patches |-> no_patches]

(***************************************************************************)
(* The snapshot codec.  A stream is the sequence of the values written to  *)
(* it; a read takes the value at a place of the stream and fails when the  *)
(* stream has ended.  The per-patch payload `data` is opaque to the map:   *)
(* its codec is the caller's, and it is carried as no_data.                *)
(***************************************************************************)
no_data == <<>>

\* buffer << world.rng: the state of the engine in decimal digits
RECURSIVE rng_to_text(_)
rng_to_text(x) ==
  IF x < 10 THEN <<x>> ELSE Append(rng_to_text(x \div 10), x % 10)

\* buffer >> world.rng: the number that the first k digits denote
RECURSIVE rng_from_text(_, _)
rng_from_text(text, k) ==
  IF k = 0 THEN 0 ELSE rng_from_text(text, k - 1) * 10 + text[k]

\* write(const patch&), lines 95-100
write_patch_fixed_dropped(p) == <<FALSE, p.items, no_data>>

write_patch(p) == <<p.fixed, p.items, no_data>>

\* read(patch&), lines 84-93, at place `at` of the stream
read_patch(stream, at) ==
  IF at + 2 > Len(stream) THEN [status |-> FALSE, patch |-> init_patch_failed]
  ELSE [status |-> TRUE,
        patch |-> [fixed |-> stream[at], items |-> stream[at + 1]]]

\* the keys of the index in the order in which the table is walked.  The
\* order is that of the buckets; the keys are taken in ascending order here.
RECURSIVE table_order(_)
table_order(keys) ==
  IF keys = {} THEN <<>>
  ELSE LET q == CHOOSE q \in keys : \A r \in keys \ {q} : position_less(q, r)
       IN  <<q>> \o table_order(keys \ {q})

\* write(world.patches, ...): the size, then the key and the patch of every
\* occupied slot
RECURSIVE write_entries(_, _, _)
write_entries(m, order, k) ==
  IF k > Len(order) THEN <<>>
  ELSE <<order[k]>> \o write_patch(m.patches[order[k]])
         \o write_entries(m, order, k + 1)

\* write(const map&, Stream&), lines 542-558
write(m) ==
  LET data == rng_to_text(m.rng)
      order == table_order(DOMAIN m.patches)
  IN  [status |-> TRUE,
       stream |-> <<Len(data), data, m.n, m.gibbs_iterations, Len(order)>>
                    \o write_entries(m, order, 1)]

\* read(world.patches, ...): `count` entries from place `at` on
RECURSIVE read_entries(_, _, _, _)
read_entries(stream, at, count, patches) ==
  IF count = 0 THEN [status |-> TRUE, patches |-> patches]
  ELSE LET p == read_patch(stream, at + 1)
       IN  IF at > Len(stream) \/ ~p.status
           THEN [status |-> FALSE, patches |-> patches]
           ELSE read_entries(stream, at + 4, count - 1,
                             patches @@ (stream[at] :> p.patch))

\* read(map&, Stream&), lines 514-539
read(stream) ==
  IF Len(stream) < 5 \/ Len(stream[2]) # stream[1]
  THEN [status |-> FALSE, map |-> no_map]
  ELSE LET entries == read_entries(stream, 6, stream[5], no_patches)
       IN  IF entries.status
           THEN [status |-> TRUE,
                 map |-> [n |-> stream[3],
                          gibbs_iterations |-> stream[4],
                          rng |-> rng_from_text(stream[2], stream[1]),
                          patches |-> entries.patches]]
           ELSE [status |-> FALSE, map |-> no_map]

(***************************************************************************)
(* The state machine.  `world` is the map; `ret` holds the operation last  *)
(* applied with its arguments and what it returned (and, in `before`, what *)
(* the map held at the four target positions when it was called);          *)
(* `sampled` the positions handed to the Gibbs field by the last           *)
(* fix_patches; `calls` counts the calls made.  `twin` is a                *)
(* second map: one constructed with the same arguments and given the same  *)
(* calls (SpecSeed), or the one read back from a snapshot (SpecSnapshot).  *)
(***************************************************************************)
no_ret ==
  [op |-> "none",
   world_position |-> Pos(0, 0),
   neighborhood |-> <<>>,
   patch_positions |-> <<>>,
   index |-> 0,
   patch_position |-> Pos(0, 0),
   within |-> [patch_position |-> Pos(0, 0), position_within_patch |-> Pos(0, 0)],
   before |-> <<>>,
   invocations |-> <<>>,
   count |-> 0,
   inserted |-> 0,
   status |-> TRUE,
   init_status |-> TRUE,
   bottom_left_corner |-> Pos(0, 0),
   top_right_corner |-> Pos(0, 0),
   capacity |-> 0,
   items |-> <<>>,
   stream |-> <<>>]

\* what a map holds at a patch position
patch_state(m, patch_position) ==
  IF patch_position \notin DOMAIN m.patches THEN "missing"
  ELSE IF m.patches[patch_position].fixed THEN "fixed" ELSE "unfixed"

fixed_neighborhood_ret(m, w, r) ==
  [no_ret EXCEPT !.op = "get_fixed_neighborhood",
                 !.world_position = w,
                 !.neighborhood = r.neighborhood,
                 !.patch_positions = r.patch_positions,
                 !.index = r.index,
                 !.within = [patch_position |-> r.patch_position,
                             position_within_patch |-> r.position_within_patch],
                 !.before = [i \in 1..Len(r.patch_positions) |->
                               patch_state(m, r.patch_positions[i])],
                 !.inserted = Cardinality(DOMAIN r.map.patches)
                                - Cardinality(DOMAIN m.patches)]

Init ==
  /\ \E via \in Constructions, n \in PatchSizes, g \in 0..MaxGibbs,
        seed \in Seeds, ndebug \in BOOLEAN, clock \in Clocks :
       world = constructed(via, n, g, seed, ndebug, clock)
  /\ twin = no_map
  /\ ret = no_ret
  /\ sampled = <<>>
  /\ calls = 0

GetFixedNeighborhood(w) ==
  /\ calls < MaxCalls
  /\ \E r \in {get_fixed_neighborhood(world, w)} :
         /\ world' = r.map
         /\ ret' = fixed_neighborhood_ret(world, w, r)
         /\ sampled' = r.positions_to_sample
  /\ calls' = calls + 1
  /\ UNCHANGED twin

Next == \E w \in World : GetFixedNeighborhood(w)

Spec == Init /\ [][Next]_vars

(***************************************************************************)
(* The sampler's side: the same machine with iterate_neighborhoods, which  *)
(* the Gibbs field calls for a center patch.  With n = 1 the call computes *)
(* rng() % 0, so it is applied to maps with n >= 2 only.                   *)
(***************************************************************************)
PatchCoords == {world_to_patch_coordinates(w, world.n) : w \in World}

IterateNeighborhoods(p, rtl) ==
  /\ calls < MaxCalls
  /\ world.n >= 2
  /\ \E r \in {iterate_neighborhoods(world, p, rtl)} :
         /\ world' = r.map
         /\ ret' = [no_ret EXCEPT !.op = "iterate_neighborhoods",
                                  !.patch_position = p,
                                  !.invocations = r.invocations]
  /\ calls' = calls + 1
  /\ UNCHANGED <<twin, sampled>>

NextIter ==
  \/ \E w \in World : GetFixedNeighborhood(w)
  \/ \E p \in PatchCoords, rtl \in BOOLEAN : IterateNeighborhoods(p, rtl)

SpecIter == Init /\ [][NextIter]_vars

(***************************************************************************)
(* Two maps constructed with the same arguments (in the same build, at     *)
(* clock readings of their own) and given the same calls.                  *)
(***************************************************************************)
InitSeed ==
  /\ \E via \in Constructions, n \in PatchSizes, g \in 0..MaxGibbs,
        seed \in Seeds, ndebug \in BOOLEAN, clock \in Clocks, later \in 0..1 :
       /\ world = constructed(via, n, g, seed, ndebug, clock)
       /\ twin = constructed(via, n, g, seed, ndebug, clock + later)
  /\ ret = no_ret
  /\ sampled = <<>>
  /\ calls = 0

BothGetFixedNeighborhood(w) ==
  /\ calls < MaxCalls
  /\ \E r \in {get_fixed_neighborhood(world, w)},
        t \in {get_fixed_neighborhood(twin, w)} :
         /\ world' = r.map
         /\ twin' = t.map
         /\ ret' = fixed_neighborhood_ret(world, w, r)
         /\ sampled' = r.positions_to_sample
  /\ calls' = calls + 1

NextSeed == \E w \in World : BothGetFixedNeighborhood(w)

SpecSeed == InitSeed /\ [][NextSeed]_vars

(***************************************************************************)
(* The coordinate functions applied to every patch size in 1..MaxN and     *)
(* every world position with coordinates in -MaxW..MaxW: the initial state *)
(* holds the arguments, and an action applies a function to them.          *)
(***************************************************************************)
GeomWorld == {Pos(x, y) : x \in (0 - MaxW)..MaxW, y \in (0 - MaxW)..MaxW}

InitGeom ==
  /\ \E n \in 1..MaxN : world = init_map(n, 0, 0)
  /\ twin = no_map
  /\ \E w \in GeomWorld : ret = [no_ret EXCEPT !.world_position = w]
  /\ sampled = <<>>
  /\ calls = 0

WorldToPatchCoordinates ==
  /\ LET w == ret.world_position
     IN  ret' = [no_ret EXCEPT
                   !.op = "world_to_patch_coordinates",
                   !.world_position = w,
                   !.patch_position = world_to_patch_coordinates(w, world.n),
                   !.within = world_to_patch_coordinates_within(w, world.n)]
  /\ UNCHANGED <<world, twin, sampled, calls>>

GetNeighborhoodPositions ==
  /\ LET w == ret.world_position
         g == get_neighborhood_positions(w, world.n)
     IN  ret' = [no_ret EXCEPT
                   !.op = "get_neighborhood_positions",
                   !.world_position = w,
                   !.patch_positions = g.patch_positions,
                   !.index = g.patch_index,
                   !.within = [patch_position |-> g.patch_position,
                               position_within_patch |-> g.position_within_patch]]
  /\ UNCHANGED <<world, twin, sampled, calls>>

NextGeom ==
  \/ WorldToPatchCoordinates
  \/ GetNeighborhoodPositions

SpecGeom == InitGeom /\ [][NextGeom]_vars

(***************************************************************************)
(* The query surface: get_fixed_neighborhood and get_or_make_patch change  *)
(* the map, and get_neighborhood, get_patch_if_exists, get_state and       *)
(* get_items read it.  Every call counts here, the reading ones included.  *)
(***************************************************************************)
\* the world positions that get_fixed_neighborhood is called for
FixTargets == {Pos(0, 0), Pos(1, 1), Pos(-1, -1)}

\* the patch positions that get_or_make_patch is called for
MakeTargets == {Pos(0, 0), Pos(1, 0)}

\* the patch positions that get_patch_if_exists is called for
LookupTargets == {Pos(0, 0), Pos(1, 0), Pos(2, 2)}

\* the corners handed to get_state and get_items on a map of patch size n:
\* rectangles of whole tiles, rectangles that cut tiles, and an empty one
\* (the top right corner below and left of the bottom left one)
BottomLeftCorners(n) == {Pos(0 - n, 0 - n), Pos(0, 0), Pos(1, 0)}

TopRightCorners(n) == {Pos(n - 1, n - 1), Pos(-1, -1), Pos(n \div 2, n - 1)}

\* the number of items that the sink of get_items takes before its add fails
SinkCapacities == {0, 1, 100}

\* the call of process_patch from which the callback of get_state returns false
Refusals == {1, 100}

\* the caller's array before get_neighborhood fills it
empty_neighborhood == <<NULL, NULL, NULL, NULL>>

GetFixedNeighborhoodAt(w) ==
  /\ w \in FixTargets
  /\ GetFixedNeighborhood(w)

GetOrMakePatch(p) ==
  /\ calls < MaxCalls
  /\ \E r \in {get_or_make_patch(world, p)} :
         /\ world' = r.map
         /\ ret' = [no_ret EXCEPT !.op = "get_or_make_patch",
                                  !.patch_position = p,
                                  !.neighborhood = <<r.patch>>,
                                  !.before = <<patch_state(world, p)>>]
  /\ calls' = calls + 1
  /\ UNCHANGED <<twin, sampled>>

GetNeighborhood(w) ==
  /\ calls < MaxCalls
  /\ \E r \in {get_neighborhood(world, w, empty_neighborhood)} :
         /\ world' = r.map
         /\ ret' = [no_ret EXCEPT
                      !.op = "get_neighborhood",
                      !.world_position = w,
                      !.neighborhood = r.neighborhood,
                      !.patch_positions = r.patch_positions,
                      !.index = r.patch_index,
                      !.count = r.count,
                      !.within = [patch_position |-> r.patch_position,
                                  position_within_patch |-> r.position_within_patch],
                      !.before = [i \in 1..Len(r.patch_positions) |->
                                    patch_state(world, r.patch_positions[i])]]
  /\ calls' = calls + 1
  /\ UNCHANGED <<twin, sampled>>

GetPatchIfExists(p) ==
  /\ calls < MaxCalls
  /\ \E r \in {patch_lookup(world, p)} :
         /\ world' = r.map
         /\ ret' = [no_ret EXCEPT !.op = "get_patch_if_exists",
                                  !.patch_position = p,
                                  !.neighborhood = <<r.patch>>]
  /\ calls' = calls + 1
  /\ UNCHANGED <<twin, sampled>>

GetState(bl, tr, refuse) ==
  /\ calls < MaxCalls
  /\ \E r \in {get_state(world, bl, tr, refuse)} :
         /\ world' = r.map
         /\ ret' = [no_ret EXCEPT !.op = "get_state",
                                  !.bottom_left_corner = bl,
                                  !.top_right_corner = tr,
                                  !.patch_positions = r.processed,
                                  !.status = r.status]
  /\ calls' = calls + 1
  /\ UNCHANGED <<twin, sampled>>

GetItems(bl, tr, capacity) ==
  /\ calls < MaxCalls
  /\ \E r \in {get_items(world, bl, tr, <<>>, capacity)} :
         /\ world' = r.map
         /\ ret' = [no_ret EXCEPT !.op = "get_items",
                                  !.bottom_left_corner = bl,
                                  !.top_right_corner = tr,
                                  !.capacity = capacity,
                                  !.items = r.items,
                                  !.status = r.status]
  /\ calls' = calls + 1
  /\ UNCHANGED <<twin, sampled>>

NextQuery ==
  \/ \E w \in World : GetFixedNeighborhoodAt(w)
  \/ \E p \in MakeTargets : GetOrMakePatch(p)
  \/ \E w \in World : GetNeighborhood(w)
  \/ \E p \in LookupTargets : GetPatchIfExists(p)
  \/ \E bl \in BottomLeftCorners(world.n), tr \in TopRightCorners(world.n),
        refuse \in Refusals : GetState(bl, tr, refuse)
  \/ \E bl \in BottomLeftCorners(world.n), tr \in TopRightCorners(world.n),
        capacity \in SinkCapacities : GetItems(bl, tr, capacity)

SpecQuery == Init /\ [][NextQuery]_vars

(***************************************************************************)
(* Patch creation under memory pressure: get_or_make_patch with either     *)
(* allocation of init(patch&) succeeding or failing.                       *)
(***************************************************************************)
GetOrMakePatchInit(p, data_ok, items_ok) ==
  /\ calls < MaxCalls
  /\ \E initialised \in {init_patch_outcome(data_ok, items_ok)} :
       \E r \in {get_or_make_patch_init(world, p, initialised)} :
         /\ world' = r.map
         /\ ret' = [no_ret EXCEPT
                      !.op = "get_or_make_patch",
                      !.patch_position = p,
                      !.neighborhood = <<r.patch>>,
                      !.before = <<patch_state(world, p)>>,
                      !.init_status = (p \in DOMAIN world.patches \/ initialised.status)]
  /\ calls' = calls + 1
  /\ UNCHANGED <<twin, sampled>>

NextAlloc ==
  \/ \E p \in World, data_ok \in BOOLEAN, items_ok \in BOOLEAN :
       GetOrMakePatchInit(p, data_ok, items_ok)
  \/ \E p \in World : GetPatchIfExists(p)

SpecAlloc == Init /\ [][NextAlloc]_vars

(***************************************************************************)
(* Snapshots: the map is written to a stream and the stream is read into a *)
(* second map, `twin`.                                                     *)
(***************************************************************************)
WriteRead ==
  /\ calls < MaxCalls
  /\ \E w \in {write(world)} :
       \E r \in {read(w.stream)} :
         /\ twin' = r.map
         /\ ret' = [no_ret EXCEPT !.op = "write_read",
                                  !.stream = w.stream,
                                  !.status = (w.status /\ r.status)]
  /\ calls' = calls + 1
  /\ UNCHANGED <<world, sampled>>

NextSnapshot ==
  \/ \E w \in World : GetFixedNeighborhoodAt(w)
  \/ WriteRead

SpecSnapshot == Init /\ [][NextSnapshot]_vars

(***************************************************************************)
(* Properties                                                              *)
(***************************************************************************)
Range(a) == {a[i] : i \in 1..Len(a)}

IsFixedNeighborhoodReturn == ret.op = "get_fixed_neighborhood"

\* C1: when get_fixed_neighborhood(w) has returned, each of the four returned
\* positions is a key of the patch index and the patch there has fixed = TRUE,
\* whatever the map held at the position before the call.
C1_ReturnedPatchesFixed ==
  IsFixedNeighborhoodReturn =>
    /\ Len(ret.patch_positions) = 4
    /\ \A i \in 1..4 :
         /\ ret.patch_positions[i] \in DOMAIN world.patches
         /\ world.patches[ret.patch_positions[i]].fixed

\* a call that found one target patch fixed already and another one unfixed
C1_Witness ==
  /\ IsFixedNeighborhoodReturn
  /\ "fixed" \in Range(ret.before)
  /\ "unfixed" \in Range(ret.before)
  /\ \A i \in 1..4 : world.patches[ret.patch_positions[i]].fixed

\* C2: a patch that is fixed stays in the index, stays fixed and keeps its
\* items in every step, and no fix_patches call hands the position of a patch
\* that was fixed before the call to the Gibbs field.
C2_FixedImmutability ==
  [][\A p \in DOMAIN world.patches :
       world.patches[p].fixed =>
         /\ p \in DOMAIN world'.patches
         /\ world'.patches[p].fixed
         /\ world'.patches[p].items = world.patches[p].items
         /\ (calls' # calls => \A k \in 1..Len(sampled') : sampled'[k] # p)]_vars

\* after a second call: a patch fixed by the first call, holding items, lies
\* in the halo of a target patch that the second call found unfixed, and the
\* field was handed positions
C2_Witness ==
  /\ IsFixedNeighborhoodReturn
  /\ calls = 2
  /\ sampled # <<>>
  /\ \E p \in DOMAIN world.patches, i \in 1..4 :
       /\ world.patches[p].fixed
       /\ p \notin Range(ret.patch_positions)
       /\ world.patches[p].items # <<>>
       /\ ret.before[i] = "unfixed"
       /\ p \in Range(halo(ret.patch_positions[i]))

\* C3: every lattice point within floor(n/2) of w in both coordinates lies in
\* a patch (floor division by n) that is among the four positions produced
\* for w.
C3_WindowCoverage ==
  ret.op = "get_neighborhood_positions" =>
    LET n == world.n
        h == n \div 2
        w == ret.world_position
    IN  \A dx \in (0 - h)..h, dy \in (0 - h)..h :
          Pos((w.x + dx) \div n, (w.y + dy) \div n) \in Range(ret.patch_positions)

\* the window of a position with negative coordinates that meets four patches
C3_Witness ==
  /\ ret.op = "get_neighborhood_positions"
  /\ ret.world_position.x < 0
  /\ ret.world_position.y < 0
  /\ LET n == world.n
         h == n \div 2
         w == ret.world_position
     IN  Cardinality({Pos((w.x + dx) \div n, (w.y + dy) \div n) :
                        dx \in (0 - h)..h, dy \in (0 - h)..h}) = 4

\* C4: the index returned by get_fixed_neighborhood(w) designates the patch
\* containing w, it is 1, 3, 0, 2 for w in the bottom-left, top-left,
\* bottom-right, top-right quadrant of its patch, and neighborhood[i] is the
\* patch stored at patch_positions[i].
C4_IndexOfContainingPatch ==
  IsFixedNeighborhoodReturn =>
    LET n == world.n
        h == n \div 2
        w == ret.world_position
        rx == w.x % n
        ry == w.y % n
    IN  /\ ret.index \in 0..3
        /\ ret.patch_positions[ret.index + 1] = Pos(w.x \div n, w.y \div n)
        /\ (rx < h /\ ry < h) => ret.index = 1
        /\ (rx < h /\ ry >= h) => ret.index = 3
        /\ (rx >= h /\ ry < h) => ret.index = 0
        /\ (rx >= h /\ ry >= h) => ret.index = 2
        /\ \A i \in 1..4 :
             /\ ret.neighborhood[i] # NULL
             /\ ret.neighborhood[i] = get_patch_if_exists(world, ret.patch_positions[i])

\* a call for a position in the top-right quadrant of a patch of negative
\* coordinates
C4_Witness ==
  /\ IsFixedNeighborhoodReturn
  /\ ret.index = 2
  /\ ret.world_position.x < 0
  /\ ret.world_position.y < 0
  /\ world.n >= 2

\* C5: world_to_patch_coordinates(w) yields a patch position p and a position
\* r within the patch with 0 <= r < n and p * n + r = w in both coordinates,
\* and the overload that yields the patch position only yields the same p.
C5_CoordinateRoundTrip ==
  ret.op = "world_to_patch_coordinates" =>
    LET n == world.n
        w == ret.world_position
        p == ret.within.patch_position
        r == ret.within.position_within_patch
    IN  /\ 0 <= r.x /\ r.x < n
        /\ 0 <= r.y /\ r.y < n
        /\ p.x * n + r.x = w.x
        /\ p.y * n + r.y = w.y
        /\ ret.patch_position = p

\* a negative coordinate that is no multiple of n, and a positive one
C5_Witness ==
  /\ ret.op = "world_to_patch_coordinates"
  /\ ret.world_position.x < 0
  /\ ret.world_position.x % world.n # 0
  /\ ret.world_position.y > 0
  /\ ret.within.patch_position.x < 0

\* C6: two maps constructed with the same seed, n and gibbs_iterations hold
\* the same PRNG state, and after the same calls the same patches.
C6_SeedDeterminism ==
  /\ world.rng = twin.rng
  /\ world.patches = twin.patches

\* get_fixed_neighborhood((0, 0)) has returned on a map with n = 8
S1_Called ==
  /\ IsFixedNeighborhoodReturn
  /\ world.n = 8
  /\ ret.world_position = Pos(0, 0)

\* C7 as stated: the positions are (-1, -1), (0, -1), (-1, 0), (0, 0) and the
\* index is 3.
C7_S1_AsStated ==
  S1_Called =>
    /\ ret.patch_positions = <<Pos(-1, -1), Pos(0, -1), Pos(-1, 0), Pos(0, 0)>>
    /\ ret.index = 3

\* C7: with n = 8, get_fixed_neighborhood((0, 0)) returns the positions
\* (-1, 0), (0, 0), (-1, -1), (0, -1) in that order (anchor (-1, 0)) and the
\* index 1.
C7_S1 ==
  S1_Called =>
    /\ ret.patch_positions = <<Pos(-1, 0), Pos(0, 0), Pos(-1, -1), Pos(0, -1)>>
    /\ ret.index = 1

C7_Witness == S1_Called /\ ret.within.position_within_patch = Pos(0, 0)

\* get_fixed_neighborhood((-1, -1)) has returned on a map with n = 8
S3_Called ==
  /\ IsFixedNeighborhoodReturn
  /\ world.n = 8
  /\ ret.world_position = Pos(-1, -1)

\* C8 as stated: patch (-1, -1), offset (7, 7), positions (-2, -1), (-1, -1),
\* (-2, 0), (-1, 0), index 3.
C8_S3_AsStated ==
  S3_Called =>
    /\ ret.within = [patch_position |-> Pos(-1, -1),
                     position_within_patch |-> Pos(7, 7)]
    /\ ret.patch_positions = <<Pos(-2, -1), Pos(-1, -1), Pos(-2, 0), Pos(-1, 0)>>
    /\ ret.index = 3

\* C8: with n = 8, (-1, -1) decomposes into patch (-1, -1) and offset (7, 7),
\* and get_fixed_neighborhood((-1, -1)) returns the positions (-1, 0), (0, 0),
\* (-1, -1), (0, -1) in that order and the index 2.
C8_S3 ==
  S3_Called =>
    /\ ret.within = [patch_position |-> Pos(-1, -1),
                     position_within_patch |-> Pos(7, 7)]
    /\ ret.patch_positions = <<Pos(-1, 0), Pos(0, 0), Pos(-1, -1), Pos(0, -1)>>
    /\ ret.index = 2

C8_Witness == S3_Called /\ ret.within.patch_position = Pos(-1, -1)

\* the single call get_fixed_neighborhood((0, 0)) on an empty map with n = 8
S4_Called == S1_Called /\ calls = 1

\* the patches in the index outside the returned block
OutsideBlock == DOMAIN world.patches \ Range(ret.patch_positions)

Adjacent(p, q) ==
  /\ p.x - q.x \in -1..1
  /\ p.y - q.y \in -1..1

\* C9 as stated: the four returned patches are fixed, and outside the block
\* there are exactly 5 patches, each unfixed.
C9_S4_AsStated ==
  S4_Called =>
    /\ \A p \in Range(ret.patch_positions) :
         p \in DOMAIN world.patches /\ world.patches[p].fixed
    /\ Cardinality(OutsideBlock) = 5
    /\ \A p \in OutsideBlock : ~world.patches[p].fixed

\* C9: after the single call the four returned patches are fixed, and the
\* patches outside the block are exactly the 12 positions adjacent to a patch
\* of the block, each unfixed.
C9_S4 ==
  S4_Called =>
    /\ \A p \in Range(ret.patch_positions) :
         p \in DOMAIN world.patches /\ world.patches[p].fixed
    /\ Cardinality(OutsideBlock) = 12
    /\ \A p \in OutsideBlock :
         /\ ~world.patches[p].fixed
         /\ \E q \in Range(ret.patch_positions) : Adjacent(p, q)

C9_Witness ==
  /\ S4_Called
  /\ ret.before = <<"missing", "missing", "missing", "missing">>
  /\ OutsideBlock # {}

\* C10: iterate_neighborhoods calls process_neighborhood_function once in each
\* of its n * n iterations, for the quadrant selected by rng() % 4.
C10_OneQuadrantPerIteration ==
  ret.op = "iterate_neighborhoods" =>
    /\ Len(ret.invocations) = world.n * world.n
    /\ \A k \in 1..Len(ret.invocations) :
         /\ ret.invocations[k].iteration = k - 1
         /\ ret.invocations[k].quadrant = ret.invocations[k].selected

IsNeighborhoodReturn == ret.op = "get_neighborhood"

\* the position of the patch containing the world position of the last call
ContainingPatch ==
  Pos(ret.world_position.x \div world.n, ret.world_position.y \div world.n)

\* the target positions of the last get_neighborhood that are in the index,
\* in their original order
PresentTargets ==
  SelectSeq(ret.patch_positions, LAMBDA q : q \in DOMAIN world.patches)

\* C11: when the patch containing w exists, get_neighborhood(w) returns a
\* count c and a patch_index < c such that neighborhood[0..c-1] are the
\* existing patches among the four target positions in their original order,
\* and neighborhood[patch_index] is the patch containing w.
C11_CompactedNeighborhood ==
  (IsNeighborhoodReturn /\ ContainingPatch \in DOMAIN world.patches) =>
    /\ ret.count = Len(PresentTargets)
    /\ ret.index < ret.count
    /\ \A k \in 1..ret.count : ret.neighborhood[k] = ref(PresentTargets[k])
    /\ ret.neighborhood[ret.index + 1] = ref(ContainingPatch)

\* a call that found two of the four target patches, the containing one among
\* them behind a missing one, so that compaction moved the index
C11_Witness ==
  /\ IsNeighborhoodReturn
  /\ ContainingPatch \in DOMAIN world.patches
  /\ ret.count = 2
  /\ ret.before[1] = "missing"
  /\ ret.index # get_neighborhood_positions(ret.world_position, world.n).patch_index

\* C20: the patch_index returned by get_neighborhood(w) never designates a
\* patch other than the one containing w: it is either no index of the
\* compacted array (patch_index >= count), which is the case whenever the
\* patch containing w does not exist, or the place of the patch containing w.
C20_IndexNeverDesignatesOtherPatch ==
  IsNeighborhoodReturn =>
    /\ (ContainingPatch \notin DOMAIN world.patches => ret.index >= ret.count)
    /\ (ret.index < ret.count =>
          ret.neighborhood[ret.index + 1] = ref(ContainingPatch))

QueryOps == {"get_neighborhood", "get_state", "get_items", "get_patch_if_exists"}

\* C12: a call of get_neighborhood, get_state, get_items or
\* get_patch_if_exists leaves the map as it was: the same patch positions in
\* the index, the same fixed flag and items in every patch, and the same PRNG
\* state.
C12_QueriesLeaveMapUnchanged ==
  [][ret'.op \in QueryOps =>
       /\ DOMAIN world'.patches = DOMAIN world.patches
       /\ \A p \in DOMAIN world.patches :
            /\ world'.patches[p].fixed = world.patches[p].fixed
            /\ world'.patches[p].items = world.patches[p].items
       /\ world'.rng = world.rng
       /\ world'.n = world.n
       /\ world'.gibbs_iterations = world.gibbs_iterations]_vars

\* get_neighborhood has returned for targets of which one is missing and one
\* is present and not fixed
C12_Witness ==
  /\ IsNeighborhoodReturn
  /\ "missing" \in Range(ret.before)
  /\ "unfixed" \in Range(ret.before)
  /\ \E i \in 1..4 : ret.before[i] = "missing"
                     /\ ret.patch_positions[i] \notin DOMAIN world.patches

\* the places <<patch position, index>> at which the map stores an item
ItemSlots ==
  UNION {{<<p, k>> : k \in 1..Len(world.patches[p].items)} :
           p \in DOMAIN world.patches}

SlotItem(s) == world.patches[s[1]].items[s[2]]

\* patch containment: every stored item lies in the tile of its patch
PatchContainment ==
  \A s \in ItemSlots :
    Pos(SlotItem(s).location.x \div world.n,
        SlotItem(s).location.y \div world.n) = s[1]

\* the places of the stored items within the rectangle of the last call
SlotsInRectangle ==
  {s \in ItemSlots :
     /\ ret.bottom_left_corner.x <= SlotItem(s).location.x
     /\ SlotItem(s).location.x <= ret.top_right_corner.x
     /\ ret.bottom_left_corner.y <= SlotItem(s).location.y
     /\ SlotItem(s).location.y <= ret.top_right_corner.y}

\* C13: on a map satisfying patch containment, get_items(bl, tr, out) with a
\* sink that takes every item appends to out exactly the stored items with
\* bl <= location <= tr in both coordinates, each as often as it is stored,
\* and returns true; when the sink rejects an append the call returns false
\* and appends nothing further.
C13_ItemsInRectangle ==
  (ret.op = "get_items" /\ PatchContainment) =>
    /\ ret.status = (Cardinality(SlotsInRectangle) <= ret.capacity)
    /\ \A k \in 1..Len(ret.items) : \E s \in SlotsInRectangle : SlotItem(s) = ret.items[k]
    /\ ret.status =>
         /\ Len(ret.items) = Cardinality(SlotsInRectangle)
         /\ \A s \in SlotsInRectangle :
              Cardinality({k \in 1..Len(ret.items) : ret.items[k] = SlotItem(s)})
                = Cardinality({t \in SlotsInRectangle : SlotItem(t) = SlotItem(s)})
    /\ ~ret.status => Len(ret.items) = ret.capacity

\* a call that returned true with items of two patches or more, while a
\* patch that it visited stores an item outside the rectangle
C13_Witness ==
  /\ ret.op = "get_items"
  /\ ret.status
  /\ \E k, j \in 1..Len(ret.items) :
       ret.items[k].location.x \div world.n # ret.items[j].location.x \div world.n
  /\ \E s \in ItemSlots \ SlotsInRectangle :
       /\ ret.bottom_left_corner.x \div world.n <= s[1].x
       /\ s[1].x <= ret.top_right_corner.x \div world.n
       /\ ret.bottom_left_corner.y \div world.n <= s[1].y
       /\ s[1].y <= ret.top_right_corner.y \div world.n

\* C14: the vector of positions that a fix_patches call hands to the Gibbs
\* field holds no position twice, whichever input patches were fixed before
\* the call and whichever fixed patches the removal loop met.
C14_HaloDedup ==
  IsFixedNeighborhoodReturn =>
    \A i, j \in 1..Len(sampled) : i # j => sampled[i] # sampled[j]

\* a call with a fixed and an unfixed input patch whose removal loop dropped
\* positions (the field was handed fewer than the halos hold) and kept some
C14_Witness ==
  /\ IsFixedNeighborhoodReturn
  /\ \E i, j \in 1..4 : ret.before[i] = "fixed" /\ ret.before[j] # "fixed"
  /\ Len(sampled) >= 2
  /\ \E i \in 1..4 :
       /\ ret.before[i] # "fixed"
       /\ \E q \in Range(halo(ret.patch_positions[i])) : q \notin Range(sampled)

\* C15: when init of a new patch fails inside get_or_make_patch, the caller
\* receives a failed status (no reference to a patch), and the index never
\* holds a position whose patch was not initialised.
C15_AllocationFailurePropagated ==
  /\ \A p \in DOMAIN world.patches : "items" \in DOMAIN world.patches[p]
  /\ (ret.op = "get_or_make_patch" /\ ~ret.init_status) =>
       ret.neighborhood = <<NULL>>

\* C16: write followed by read of the produced stream succeeds and yields a
\* map with the same n, gibbs_iterations, PRNG state, patch positions, and
\* fixed flag and items in every patch; the stream holds the length of the
\* PRNG state, the PRNG state, n, gibbs_iterations and the patch index (its
\* size, and position, fixed, items, data of every patch) in this order.
C16_SnapshotRoundTrip ==
  ret.op = "write_read" =>
    /\ ret.status
    /\ twin.n = world.n
    /\ twin.gibbs_iterations = world.gibbs_iterations
    /\ twin.rng = world.rng
    /\ DOMAIN twin.patches = DOMAIN world.patches
    /\ \A p \in DOMAIN world.patches :
         /\ twin.patches[p].fixed = world.patches[p].fixed
         /\ twin.patches[p].items = world.patches[p].items
    /\ Len(ret.stream) = 5 + 4 * Cardinality(DOMAIN world.patches)
    /\ ret.stream[1] = Len(ret.stream[2])
    /\ ret.stream[3] = world.n
    /\ ret.stream[4] = world.gibbs_iterations
    /\ ret.stream[5] = Cardinality(DOMAIN world.patches)
    /\ \A k \in 1..Cardinality(DOMAIN world.patches) :
         LET at == 6 + 4 * (k - 1)
             p == ret.stream[at]
         IN  /\ p \in DOMAIN world.patches
             /\ ret.stream[at + 1] = world.patches[p].fixed
             /\ ret.stream[at + 2] = world.patches[p].items
             /\ ret.stream[at + 3] = no_data

\* a snapshot of a map that holds fixed and unfixed patches with items, and
\* whose PRNG has advanced to a state of several digits
C16_Witness ==
  /\ ret.op = "write_read"
  /\ ret.stream[1] >= 2
  /\ \E p, q \in DOMAIN twin.patches :
       /\ twin.patches[p].fixed /\ twin.patches[p].items # <<>>
       /\ ~twin.patches[q].fixed /\ twin.patches[q].items # <<>>

\* the room reserved by check_size at the start of get_fixed_neighborhood
ReservedCapacity == 16

\* C17: the number of patches that a get_fixed_neighborhood call inserts into
\* the index (the target patches and the halo positions materialised in
\* fix_patches) is at most 16, the number of insertions reserved for at the
\* start of the call.
C17_InsertionsWithinReserve ==
  IsFixedNeighborhoodReturn => ret.inserted <= ReservedCapacity

\* a call that used up the reserve, and a later one that found part of its
\* targets and halo in the index and inserted the rest
C17_Witness ==
  /\ IsFixedNeighborhoodReturn
  /\ calls = 2
  /\ ret.inserted > 0
  /\ "fixed" \in Range(ret.before)
  /\ Cardinality(DOMAIN world.patches) = ReservedCapacity + ret.inserted

\* the positions of the patches of a map that are fixed
FixedPatches(m) == {p \in DOMAIN m.patches : m.patches[p].fixed}

\* C18: a get_fixed_neighborhood call changes the fixed flag of the four
\* returned patches only: every other patch that was in the index keeps its
\* flag, every other patch that the call created is unfixed, and so the set
\* of fixed patches grows by exactly the returned block (it is empty after
\* construction, hence always the union of the blocks returned so far).
C18_OnlyReturnedPatchesFixed ==
  [][ret'.op = "get_fixed_neighborhood" =>
       /\ \A p \in DOMAIN world'.patches \ Range(ret'.patch_positions) :
            world'.patches[p].fixed =
              (p \in DOMAIN world.patches /\ world.patches[p].fixed)
       /\ FixedPatches(world') = FixedPatches(world) \cup Range(ret'.patch_positions)
       /\ (calls = 0 => FixedPatches(world) = {})]_vars

\* after a second call whose block is not that of the first: halo patches
\* that the call created are unfixed, and so is a halo patch of the first call
C18_Witness ==
  /\ IsFixedNeighborhoodReturn
  /\ calls = 2
  /\ ret.inserted > 0
  /\ Cardinality(FixedPatches(world)) > 4
  /\ \E p \in OutsideBlock : ~world.patches[p].fixed
  /\ \E p \in OutsideBlock : world.patches[p].fixed

\* the eight positions around a patch position
Around(p) ==
  {Pos(p.x + dx, p.y + dy) : dx \in -1..1, dy \in -1..1} \ {p}

\* C19: in every state reached from an empty map by get_fixed_neighborhood
\* and get_or_make_patch calls, every patch with fixed = TRUE has its eight
\* adjacent patches (up, down, left, right and the four diagonals) in the
\* index.
C19_FixedPatchesHaveHalo ==
  \A p \in FixedPatches(world) : Around(p) \subseteq DOMAIN world.patches

\* get_fixed_neighborhood has fixed a patch that get_or_make_patch had made
\* before, on a map on which nothing else had been fixed
C19_Witness ==
  /\ IsFixedNeighborhoodReturn
  /\ "unfixed" \in Range(ret.before)
  /\ "missing" \in Range(ret.before)
  /\ Cardinality(FixedPatches(world)) = 4
  /\ \A p \in FixedPatches(world) : Around(p) \subseteq DOMAIN world.patches

====
